---- MODULE Spec2Model ----
(***************************************************************************)
(* Session middleware of gotham (src/middleware/session/mod.rs).           *)
(*                                                                         *)
(* Every connection runs the pipeline of SessionMiddleware::call on one    *)
(* request at a time: cookie lookup, backend read, load_session or         *)
(* new_session, the handler chain, persist_session.  The backend (mod      *)
(* backend), the request-scoped State container and the handler chain are  *)
(* collaborators whose code is outside mod.rs.                             *)
(*                                                                         *)
(* Spec serves the requests of one connection, one after another, against  *)
(* a backend whose records may also expire or be overwritten with foreign  *)
(* bytes between any two steps.  Concurrent lets the requests of all the   *)
(* connections overlap.                                                    *)
(***************************************************************************)
EXTENDS Integers, Sequences, FiniteSets, TLC

\* ---------------------------------------------------------------- bounds
NumConnections == 2   \* connections, each with at most one request in flight
MaxIdentifiers == 2   \* identifiers the backend generator hands out in a run
MaxValue == 1         \* session values are 0..MaxValue

Connections == 1..NumConnections
Values == 0..MaxValue

\* ------------------------------------------------------- identifiers
\* An identifier no generator call ever returns: a cookie value a client
\* made up.  The generator returns 1, 2, ...
ForgedIdentifier == 0
Identifiers == ForgedIdentifier..MaxIdentifiers

\* ------------------------------------------------------------ codec
\* T::default() of the session value type (tests::TestSession { val: 0 }).
DefaultValue == 0

\* MessagePack of a one-field struct: fixarray(1) = 0x91, then the field as a
\* positive fixint.
FixArray1 == 145
FixArray0 == 144

serialize(value) == <<FixArray1, value>>

\* Bytes written by another version of the application, whose session type has
\* no field: they do not deserialize into T.
ForeignBytes == <<FixArray0>>

deserialize(bytes) ==
    IF Len(bytes) = 2 /\ bytes[1] = FixArray1 /\ bytes[2] \in 0..127
    THEN [ok |-> TRUE, value |-> bytes[2]]
    ELSE [ok |-> FALSE, value |-> DefaultValue]

NoRecord == <<>>
Bytes == {serialize(v) : v \in Values} \cup {ForeignBytes}

\* ------------------------------------------------------ configuration
CookieName == "_gotham_session"
OtherCookieName == "lang"

\* ----------------------------------------------------- request headers
\* The Cookie header of a request: absent, or a set of name/value pairs.
NoHeader == [present |-> FALSE, pairs |-> {}]

\* Option::None of an Option<SessionIdentifier>.
None == -1

CookieHeaders(issued) ==
    {NoHeader, [present |-> TRUE, pairs |-> {<<OtherCookieName, 1>>}]}
        \cup {[present |-> TRUE, pairs |-> {<<CookieName, id>>}] : id \in issued}

\* A lookup that returns the value of whatever cookie the header carries.
get_any(cookie, name) ==
    IF ~cookie.present THEN None
    ELSE IF cookie.pairs # {}
         THEN (CHOOSE p \in cookie.pairs : TRUE)[2]
         ELSE None

\* request.headers().get::<Cookie>().and_then(|c| c.get(name))
get(cookie, name) ==
    IF ~cookie.present THEN None
    ELSE IF \E p \in cookie.pairs : p[1] = name
         THEN (CHOOSE p \in cookie.pairs : p[1] = name)[2]
         ELSE None

\* ------------------------------------------------------------ responses
Accepted == 202
InternalServerError == 500

NoResponse == [status |-> 0, set_cookie |-> <<>>]

\* One value of a Set-Cookie header: "<name>=<value>" and then its attributes.
cookie_string(name, value, attributes) ==
    [name |-> name, value |-> value, attributes |-> attributes]

HandlerCookie == cookie_string(OtherCookieName, 1, <<>>)

\* The responses a handler may return: status Accepted, with or without a
\* Set-Cookie header of its own.
HandlerResponses ==
    {[status |-> Accepted, set_cookie |-> sc] : sc \in {<<>>, <<HandlerCookie>>}}

\* Response::new().with_status(StatusCode::InternalServerError)
ise_response == [status |-> InternalServerError, set_cookie |-> <<>>]

\* ------------------------------------------------------------- sessions
\* An empty SessionData slot (State::take returned None).
NoSession == [value |-> DefaultValue, cookie_state |-> "None",
              state |-> "None", identifier |-> None]

Event(op, id, bytes, ok) == [op |-> op, id |-> id, bytes |-> bytes, ok |-> ok]

VARIABLES
    store,            \* backend: identifier -> stored bytes, or NoRecord
    next_identifier,  \* backend: the identifier random_identifier returns next
    secure,           \* cookie_config.secure = SecureCookie::Secure
    pc,               \* per request: idle, read_session, chain, done
    request,          \* per request: its Cookie header
    state,            \* per request: the SessionData slot of its State
    response,         \* per request: the response of the finished request
    result,           \* per request: pending, Ok, or the error of the future
    log,              \* per request: calls the middleware made, in order
    handler,          \* per request: what the handler did with the session
    session_data,     \* per request: what persist_session took from State
    persisted         \* per identifier: the value of the stored record that
                      \* the last successful persist_session call wrote

vars == <<store, next_identifier, secure, pc, request, state, response,
          result, log, handler, session_data, persisted>>

\* --------------------------------------------------------------- backend
\* Backend::random_identifier: an identifier never returned before.
random_identifier(backend) == backend

\* Backend::read_session: Ok(Some(bytes)), Ok(None), or Err.
read_session(backend_store, identifier, backend_ok) ==
    IF backend_ok
    THEN [ok |-> TRUE, val |-> backend_store[identifier]]
    ELSE [ok |-> FALSE, val |-> NoRecord]

\* Backend::persist_session: overwrites the record, or fails and leaves it.
backend_persist_session(backend_store, identifier, bytes, backend_ok) ==
    IF backend_ok
    THEN [backend_store EXCEPT ![identifier] = bytes]
    ELSE backend_store

\* ----------------------------------------------------------- SessionData
\* SessionData::new that starts the session Clean.
new_clean(backend) ==
    [value |-> DefaultValue,
     cookie_state |-> "New",
     state |-> "Clean",
     identifier |-> random_identifier(backend)]

\* SessionData::new
new(backend) ==
    [value |-> DefaultValue,
     cookie_state |-> "New",
     state |-> "Dirty",
     identifier |-> random_identifier(backend)]

\* SessionData::construct that keeps the client's identifier when there is no
\* record.
construct_reuse(backend, identifier, val) ==
    IF val # NoRecord
    THEN LET d == deserialize(val)
         IN  IF d.ok
             THEN [ok |-> TRUE,
                   session_data |-> [value |-> d.value,
                                     cookie_state |-> "Existing",
                                     state |-> "Clean",
                                     identifier |-> identifier]]
             ELSE [ok |-> FALSE, session_data |-> NoSession]
    ELSE [ok |-> TRUE,
          session_data |-> [new(backend) EXCEPT !.identifier = identifier]]

\* SessionData::construct that falls back to T::default() when the bytes do
\* not deserialize (the TODO of the Err arm).
construct_fallback(backend, identifier, val) ==
    IF val # NoRecord
    THEN LET d == deserialize(val)
         IN  IF d.ok
             THEN [ok |-> TRUE,
                   session_data |-> [value |-> d.value,
                                     cookie_state |-> "Existing",
                                     state |-> "Clean",
                                     identifier |-> identifier]]
             ELSE [ok |-> TRUE, session_data |-> new(backend)]
    ELSE [ok |-> TRUE, session_data |-> new(backend)]

\* SessionData::construct that starts a loaded session from T::default(), as
\* SessionData::new does.
construct_ignores_bytes(backend, identifier, val) ==
    IF val # NoRecord
    THEN LET d == deserialize(val)
         IN  IF d.ok
             THEN [ok |-> TRUE,
                   session_data |-> [value |-> DefaultValue,
                                     cookie_state |-> "Existing",
                                     state |-> "Clean",
                                     identifier |-> identifier]]
             ELSE [ok |-> FALSE, session_data |-> NoSession]
    ELSE [ok |-> TRUE, session_data |-> new(backend)]

\* SessionData::construct
construct(backend, identifier, val) ==
    IF val # NoRecord
    THEN LET d == deserialize(val)
         IN  IF d.ok
             THEN [ok |-> TRUE,
                   session_data |-> [value |-> d.value,
                                     cookie_state |-> "Existing",
                                     state |-> "Clean",
                                     identifier |-> identifier]]
             ELSE [ok |-> FALSE, session_data |-> NoSession]
    ELSE [ok |-> TRUE, session_data |-> new(backend)]

\* Deref::deref
deref(self) == self.value

\* DerefMut::deref_mut that forgets to mark the session.
deref_mut_unmarked(self) == self

\* DerefMut::deref_mut that also asks for the cookie to be sent again.
deref_mut_renews(self) == [self EXCEPT !.state = "Dirty", !.cookie_state = "New"]

\* DerefMut::deref_mut: the session the handler then writes through.
deref_mut(self) == [self EXCEPT !.state = "Dirty"]

\* ------------------------------------------------------- post-processing
\* The cookie string with the secure attribute whatever the configuration.
session_cookie_always_secure(sd, cfg_secure) ==
    cookie_string(CookieName, sd.identifier, <<"secure", "HttpOnly">>)

\* The session cookie of send_cookie's format! strings.
session_cookie(sd, cfg_secure) ==
    IF cfg_secure
    THEN cookie_string(CookieName, sd.identifier, <<"secure", "HttpOnly">>)
    ELSE cookie_string(CookieName, sd.identifier, <<"HttpOnly">>)

\* send_cookie with Headers::append in the place of Headers::set.
send_cookie_append(resp, sd, cfg_secure) ==
    [resp EXCEPT !.set_cookie = Append(@, session_cookie(sd, cfg_secure))]

\* send_cookie: Headers::set replaces whatever Set-Cookie the response had.
send_cookie(resp, sd, cfg_secure) ==
    [resp EXCEPT !.set_cookie = <<session_cookie(sd, cfg_secure)>>]

\* write_session that only changes the status of the handler's response when
\* it fails.
write_session_status_only(resp, sd, serialize_ok, backend_ok) ==
    IF ~serialize_ok
    THEN [response |-> [resp EXCEPT !.status = InternalServerError],
          events |-> <<Event("serialize", sd.identifier, <<>>, FALSE)>>]
    ELSE LET bytes == serialize(deref(sd))
             identifier == sd.identifier
         IN  IF backend_ok
             THEN [response |-> resp,
                   events |-> <<Event("serialize", identifier, bytes, TRUE),
                                Event("persist_session", identifier, bytes, TRUE)>>]
             ELSE [response |-> [resp EXCEPT !.status = InternalServerError],
                   events |-> <<Event("serialize", identifier, bytes, TRUE),
                                Event("persist_session", identifier, bytes, FALSE)>>]

\* write_session that returns the handler's response when persist_session
\* fails.
write_session_swallows_error(resp, sd, serialize_ok, backend_ok) ==
    IF ~serialize_ok
    THEN [response |-> ise_response,
          events |-> <<Event("serialize", sd.identifier, <<>>, FALSE)>>]
    ELSE LET bytes == serialize(deref(sd))
             identifier == sd.identifier
         IN  [response |-> resp,
              events |-> <<Event("serialize", identifier, bytes, TRUE),
                           Event("persist_session", identifier, bytes, backend_ok)>>]

\* write_session that calls persist_session a second time when it fails.
write_session_retries(resp, sd, serialize_ok, backend_ok) ==
    IF ~serialize_ok
    THEN [response |-> ise_response,
          events |-> <<Event("serialize", sd.identifier, <<>>, FALSE)>>]
    ELSE LET bytes == serialize(deref(sd))
             identifier == sd.identifier
         IN  IF backend_ok
             THEN [response |-> resp,
                   events |-> <<Event("serialize", identifier, bytes, TRUE),
                                Event("persist_session", identifier, bytes, TRUE)>>]
             ELSE [response |-> ise_response,
                   events |-> <<Event("serialize", identifier, bytes, TRUE),
                                Event("persist_session", identifier, bytes, FALSE),
                                Event("persist_session", identifier, bytes, FALSE)>>]

\* write_session: the response to return and the persist_session call made.
write_session(resp, sd, serialize_ok, backend_ok) ==
    IF ~serialize_ok
    THEN [response |-> ise_response,
          events |-> <<Event("serialize", sd.identifier, <<>>, FALSE)>>]
    ELSE LET bytes == serialize(deref(sd))
             identifier == sd.identifier
         IN  IF backend_ok
             THEN [response |-> resp,
                   events |-> <<Event("serialize", identifier, bytes, TRUE),
                                Event("persist_session", identifier, bytes, TRUE)>>]
             ELSE [response |-> ise_response,
                   events |-> <<Event("serialize", identifier, bytes, TRUE),
                                Event("persist_session", identifier, bytes, FALSE)>>]

\* persist_session that writes the session whatever its SessionDataState.
persist_session_always(st, resp, cfg_secure, serialize_ok, backend_ok) ==
    IF st # NoSession
    THEN LET cookie == st.cookie_state = "New"
             r1 == IF cookie THEN send_cookie(resp, st, cfg_secure) ELSE resp
             e1 == IF cookie
                   THEN <<Event("send_cookie", st.identifier, <<>>, TRUE)>>
                   ELSE <<>>
             w == write_session(r1, st, serialize_ok, backend_ok)
         IN  [response |-> w.response, events |-> e1 \o w.events]
    ELSE [response |-> resp, events |-> <<>>]

\* persist_session that writes the session before it sends the cookie.
persist_session_write_first(st, resp, cfg_secure, serialize_ok, backend_ok) ==
    IF st # NoSession
    THEN LET cookie == st.cookie_state = "New"
             w == IF st.state = "Dirty"
                  THEN write_session(resp, st, serialize_ok, backend_ok)
                  ELSE [response |-> resp, events |-> <<>>]
             r1 == IF cookie THEN send_cookie(w.response, st, cfg_secure)
                   ELSE w.response
             e1 == IF cookie
                   THEN <<Event("send_cookie", st.identifier, <<>>, TRUE)>>
                   ELSE <<>>
         IN  [response |-> r1, events |-> w.events \o e1]
    ELSE [response |-> resp, events |-> <<>>]

\* persist_session that answers a State without SessionData with the
\* internal-error response.
persist_session_requires_session(st, resp, cfg_secure, serialize_ok, backend_ok) ==
    IF st # NoSession
    THEN LET cookie == st.cookie_state = "New"
             r1 == IF cookie THEN send_cookie(resp, st, cfg_secure) ELSE resp
             e1 == IF cookie
                   THEN <<Event("send_cookie", st.identifier, <<>>, TRUE)>>
                   ELSE <<>>
         IN  IF st.state = "Dirty"
             THEN LET w == write_session(r1, st, serialize_ok, backend_ok)
                  IN  [response |-> w.response, events |-> e1 \o w.events]
             ELSE [response |-> r1, events |-> e1]
    ELSE [response |-> ise_response, events |-> <<>>]

\* persist_session: state.take, then send_cookie and write_session.
persist_session(st, resp, cfg_secure, serialize_ok, backend_ok) ==
    IF st # NoSession
    THEN LET cookie == st.cookie_state = "New"
             r1 == IF cookie THEN send_cookie(resp, st, cfg_secure) ELSE resp
             e1 == IF cookie
                   THEN <<Event("send_cookie", st.identifier, <<>>, TRUE)>>
                   ELSE <<>>
         IN  IF st.state = "Dirty"
             THEN LET w == write_session(r1, st, serialize_ok, backend_ok)
                  IN  [response |-> w.response, events |-> e1 \o w.events]
             ELSE [response |-> r1, events |-> e1]
    ELSE [response |-> resp, events |-> <<>>]

\* load_session that answers a backend error with a fresh session.
load_session_fresh_on_error(backend, identifier, res) ==
    IF res.ok
    THEN LET c == construct(backend, identifier, res.val)
         IN  IF c.ok
             THEN [ok |-> TRUE, session_data |-> c.session_data, error |-> "none"]
             ELSE [ok |-> FALSE, session_data |-> NoSession,
                   error |-> "session couldn't be deserialized"]
    ELSE [ok |-> TRUE, session_data |-> new(backend), error |-> "none"]

\* load_session: the session to put into State, or the error of the request.
load_session(backend, identifier, res) ==
    IF res.ok
    THEN LET c == construct(backend, identifier, res.val)
         IN  IF c.ok
             THEN [ok |-> TRUE, session_data |-> c.session_data, error |-> "none"]
             ELSE [ok |-> FALSE, session_data |-> NoSession,
                   error |-> "session couldn't be deserialized"]
    ELSE [ok |-> FALSE, session_data |-> NoSession,
          error |-> "backend failed to return session"]

\* new_session
new_session(backend) == new(backend)

\* ------------------------------------------------------------------ Init
\* What the handler of a request has done so far: its last access to the
\* session, the value its last read saw, the value it last wrote, and the
\* response it returned.
NoHandler == [last |-> "none", seen |-> None, written |-> None,
              returned |-> NoResponse]

Init ==
    /\ store = [id \in Identifiers |-> NoRecord]
    /\ next_identifier = 1
    /\ secure \in BOOLEAN
    /\ pc = [r \in Connections |-> "idle"]
    /\ request = [r \in Connections |-> NoHeader]
    /\ state = [r \in Connections |-> NoSession]
    /\ response = [r \in Connections |-> NoResponse]
    /\ result = [r \in Connections |-> "pending"]
    /\ log = [r \in Connections |-> <<>>]
    /\ handler = [r \in Connections |-> NoHandler]
    /\ session_data = [r \in Connections |-> NoSession]
    /\ persisted = [id \in Identifiers |-> None]

\* The positions of the events of one operation in a log.
Positions(events, op) == {i \in 1..Len(events) : events[i].op = op}

Count(events, op) == Cardinality(Positions(events, op))

\* Events of the stored persist calls of a log, applied to the backend.
RECURSIVE apply_events(_, _)
apply_events(backend_store, events) ==
    IF events = <<>> THEN backend_store
    ELSE LET e == Head(events)
             s1 == IF e.op = "persist_session"
                   THEN backend_persist_session(backend_store, e.id, e.bytes, e.ok)
                   ELSE backend_store
         IN  apply_events(s1, Tail(events))

\* --------------------------------------------------------------- actions
\* call that puts a session for the cookie's identifier into State before the
\* backend read has resolved.
call_eager(r, cookie) ==
    /\ pc[r] = "idle"
    /\ request' = [request EXCEPT ![r] = cookie]
    /\ LET session_identifier == get(cookie, CookieName)
       IN  IF session_identifier = None
           THEN /\ next_identifier <= MaxIdentifiers
                /\ state' = [state EXCEPT ![r] = new_session(next_identifier)]
                /\ next_identifier' = next_identifier + 1
                /\ pc' = [pc EXCEPT ![r] = "chain"]
                /\ log' = [log EXCEPT ![r] =
                       <<Event("random_identifier", next_identifier, <<>>, TRUE),
                         Event("chain", None, <<>>, TRUE)>>]
           ELSE /\ pc' = [pc EXCEPT ![r] = "read_session"]
                /\ log' = [log EXCEPT ![r] =
                       <<Event("read_session", session_identifier, NoRecord, TRUE)>>]
                /\ state' = [state EXCEPT ![r] =
                       [value |-> DefaultValue, cookie_state |-> "Existing",
                        state |-> "Clean", identifier |-> session_identifier]]
                /\ UNCHANGED next_identifier
    /\ UNCHANGED <<store, secure, response, result, handler, session_data>>
    /\ UNCHANGED persisted

\* SessionMiddleware::call up to its first suspension point: without a session
\* cookie new_session runs and the chain is invoked; with one the backend read
\* is started.
call(r, cookie) ==
    /\ pc[r] = "idle"
    /\ request' = [request EXCEPT ![r] = cookie]
    /\ LET session_identifier == get(cookie, CookieName)
       IN  IF session_identifier = None
           THEN /\ next_identifier <= MaxIdentifiers
                /\ state' = [state EXCEPT ![r] = new_session(next_identifier)]
                /\ next_identifier' = next_identifier + 1
                /\ pc' = [pc EXCEPT ![r] = "chain"]
                /\ log' = [log EXCEPT ![r] =
                       <<Event("random_identifier", next_identifier, <<>>, TRUE),
                         Event("chain", None, <<>>, TRUE)>>]
           ELSE /\ pc' = [pc EXCEPT ![r] = "read_session"]
                /\ log' = [log EXCEPT ![r] =
                       <<Event("read_session", session_identifier, NoRecord, TRUE)>>]
                /\ UNCHANGED <<state, next_identifier>>
    /\ UNCHANGED <<store, secure, response, result, handler, session_data>>
    /\ UNCHANGED persisted

\* The backend read resolves: load_session, and on success the chain is invoked.
read_session_ready(r, backend_ok) ==
    /\ pc[r] = "read_session"
    /\ LET id == get(request[r], CookieName)
           res == read_session(store, id, backend_ok)
           l == load_session(next_identifier, id, res)
           fresh == l.ok /\ l.session_data.cookie_state = "New"
       IN  /\ fresh => next_identifier <= MaxIdentifiers
           /\ next_identifier' = IF fresh THEN next_identifier + 1 ELSE next_identifier
           /\ IF l.ok
              THEN /\ state' = [state EXCEPT ![r] = l.session_data]
                   /\ pc' = [pc EXCEPT ![r] = "chain"]
                   /\ log' = [log EXCEPT ![r] = @ \o
                          <<Event("read_result", id, res.val, res.ok)>> \o
                          (IF fresh
                           THEN <<Event("random_identifier",
                                        l.session_data.identifier, <<>>, TRUE)>>
                           ELSE <<>>) \o <<Event("chain", None, <<>>, TRUE)>>]
                   /\ UNCHANGED result
              ELSE /\ pc' = [pc EXCEPT ![r] = "done"]
                   /\ result' = [result EXCEPT ![r] = l.error]
                   /\ log' = [log EXCEPT ![r] = @ \o
                          <<Event("read_result", id, res.val, res.ok)>>]
                   /\ UNCHANGED state
    /\ UNCHANGED <<store, secure, request, response, handler, session_data>>
    /\ UNCHANGED persisted

\* The handler reads the session value through Deref.
handler_deref(r) ==
    /\ pc[r] = "chain"
    /\ state[r] # NoSession
    /\ handler' = [handler EXCEPT ![r].last = "deref",
                                  ![r].seen = deref(state[r])]
    /\ UNCHANGED <<store, next_identifier, secure, pc, request, state, response,
                   result, log, session_data>>
    /\ UNCHANGED persisted

\* The handler takes the session value through DerefMut and writes v to it.
handler_deref_mut(r, v) ==
    /\ pc[r] = "chain"
    /\ state[r] # NoSession
    /\ state' = [state EXCEPT ![r] = [deref_mut(state[r]) EXCEPT !.value = v]]
    /\ handler' = [handler EXCEPT ![r].last = "deref_mut",
                                  ![r].written = v]
    /\ UNCHANGED <<store, next_identifier, secure, pc, request, response,
                   result, log, session_data>>
    /\ UNCHANGED persisted

\* The handler removes the SessionData from State (State::take).
handler_take(r) ==
    /\ pc[r] = "chain"
    /\ state[r] # NoSession
    /\ state' = [state EXCEPT ![r] = NoSession]
    /\ UNCHANGED <<store, next_identifier, secure, pc, request, response,
                   result, log, handler, session_data>>
    /\ UNCHANGED persisted

\* The chain resolves to (state, response): persist_session runs.
chain_ok(r, resp, serialize_ok, backend_ok) ==
    /\ pc[r] = "chain"
    /\ LET p == persist_session(state[r], resp, secure, serialize_ok, backend_ok)
       IN  /\ session_data' = [session_data EXCEPT ![r] = state[r]]
           /\ state' = [state EXCEPT ![r] = NoSession]
           /\ response' = [response EXCEPT ![r] = p.response]
           /\ log' = [log EXCEPT ![r] = @ \o p.events]
           /\ store' = apply_events(store, p.events)
           /\ persisted' =
                  IF \E i \in Positions(p.events, "persist_session") : p.events[i].ok
                  THEN [persisted EXCEPT ![state[r].identifier] = deref(state[r])]
                  ELSE persisted
    /\ handler' = [handler EXCEPT ![r].returned = resp]
    /\ result' = [result EXCEPT ![r] = "Ok"]
    /\ pc' = [pc EXCEPT ![r] = "done"]
    /\ UNCHANGED <<next_identifier, secure, request>>

\* The chain resolves to an error and the session is written all the same, as
\* with `then` in the place of `and_then`.
chain_err_then(r) ==
    /\ pc[r] = "chain"
    /\ LET p == persist_session(state[r], NoResponse, secure, TRUE, TRUE)
       IN  /\ log' = [log EXCEPT ![r] = @ \o p.events]
           /\ store' = apply_events(store, p.events)
    /\ result' = [result EXCEPT ![r] = "handler error"]
    /\ pc' = [pc EXCEPT ![r] = "done"]
    /\ UNCHANGED <<next_identifier, secure, request, state, response,
                   handler, session_data>>
    /\ UNCHANGED persisted

\* The chain resolves to an error: and_then skips persist_session.
chain_err(r) ==
    /\ pc[r] = "chain"
    /\ result' = [result EXCEPT ![r] = "handler error"]
    /\ pc' = [pc EXCEPT ![r] = "done"]
    /\ UNCHANGED <<store, next_identifier, secure, request, state, response,
                   log, handler, session_data>>
    /\ UNCHANGED persisted

\* The request is cancelled: the future returned by call is dropped while the
\* backend read or the handler chain is pending, and the State it owns with it.
cancel(r) ==
    /\ pc[r] \in {"read_session", "chain"}
    /\ pc' = [pc EXCEPT ![r] = "done"]
    /\ result' = [result EXCEPT ![r] = "cancelled"]
    /\ state' = [state EXCEPT ![r] = NoSession]
    /\ UNCHANGED <<store, next_identifier, secure, request, response,
                   log, handler, session_data>>
    /\ UNCHANGED persisted

\* The connection slot is handed the next request.
next_request(r) ==
    /\ pc[r] = "done"
    /\ pc' = [pc EXCEPT ![r] = "idle"]
    /\ request' = [request EXCEPT ![r] = NoHeader]
    /\ state' = [state EXCEPT ![r] = NoSession]
    /\ response' = [response EXCEPT ![r] = NoResponse]
    /\ result' = [result EXCEPT ![r] = "pending"]
    /\ log' = [log EXCEPT ![r] = <<>>]
    /\ handler' = [handler EXCEPT ![r] = NoHandler]
    /\ session_data' = [session_data EXCEPT ![r] = NoSession]
    /\ UNCHANGED <<store, next_identifier, secure>>
    /\ UNCHANGED persisted

\* The backend drops a record (expired or evicted).
evict(id) ==
    /\ store[id] # NoRecord
    /\ store' = [store EXCEPT ![id] = NoRecord]
    /\ persisted' = [persisted EXCEPT ![id] = None]
    /\ UNCHANGED <<next_identifier, secure, pc, request, state, response,
                   result, log, handler, session_data>>

\* A record is left behind by a version of the application with another
\* session type.
foreign_record(id) ==
    /\ store[id] # ForeignBytes
    /\ store' = [store EXCEPT ![id] = ForeignBytes]
    /\ persisted' = [persisted EXCEPT ![id] = None]
    /\ UNCHANGED <<next_identifier, secure, pc, request, state, response,
                   result, log, handler, session_data>>

\* The steps of connection r.
connection(r) ==
    \/ \E c \in CookieHeaders(ForgedIdentifier..(next_identifier - 1)) : call(r, c)
    \/ \E ok \in BOOLEAN : read_session_ready(r, ok)
    \/ handler_deref(r)
    \/ \E v \in Values : handler_deref_mut(r, v)
    \/ handler_take(r)
    \/ \E resp \in HandlerResponses :
            \E s \in BOOLEAN : \E b \in BOOLEAN : chain_ok(r, resp, s, b)
    \/ chain_err(r)
    \/ cancel(r)
    \/ next_request(r)

\* The steps of the backend that no request of this middleware causes, on the
\* records of the identifiers the generator has returned.
environment ==
    \/ \E id \in 1..(next_identifier - 1) : evict(id)
    \/ \E id \in 1..(next_identifier - 1) : foreign_record(id)

Next == connection(1) \/ environment

\* One connection: its requests are served one after another.
Spec == Init /\ [][Next]_vars

\* Every connection: requests of different connections overlap.
NextConcurrent == (\E r \in Connections : connection(r)) \/ environment

Concurrent == Init /\ [][NextConcurrent]_vars

\* The steps of connection r for requests that run to a response: the handler
\* reads and writes the session and returns its response, serialization
\* succeeds, and persist_session succeeds or fails.
overlapping(r) ==
    \/ \E c \in CookieHeaders(ForgedIdentifier..(next_identifier - 1)) : call(r, c)
    \/ \E ok \in BOOLEAN : read_session_ready(r, ok)
    \/ handler_deref(r)
    \/ \E v \in Values : handler_deref_mut(r, v)
    \/ \E b \in BOOLEAN :
            chain_ok(r, [status |-> Accepted, set_cookie |-> <<>>], TRUE, b)
    \/ next_request(r)

NextOverlap == \E r \in Connections : overlapping(r)

\* Requests of different connections overlap; the records of the backend are
\* changed by their persist_session calls only.
Overlap == Init /\ [][NextOverlap]_vars

\* ------------------------------------------------------ reading the log
\* The identifier the request of connection r carries in its session cookie.
CookieIdentifier(r) == get(request[r], CookieName)

\* The outcome of the backend read of the request of connection r.
ReadDecodable(r) ==
    \E i \in Positions(log[r], "read_result") :
        log[r][i].ok /\ log[r][i].bytes # NoRecord /\ deserialize(log[r][i].bytes).ok

ReadUndecodable(r) ==
    \E i \in Positions(log[r], "read_result") :
        log[r][i].ok /\ log[r][i].bytes # NoRecord /\ ~deserialize(log[r][i].bytes).ok

ReadNoRecord(r) ==
    \E i \in Positions(log[r], "read_result") :
        log[r][i].ok /\ log[r][i].bytes = NoRecord

ReadFailed(r) ==
    \E i \in Positions(log[r], "read_result") : ~log[r][i].ok

\* The handler of the request of connection r took mutable access.
Mutated(r) == handler[r].written # None

\* The request of connection r ended with a response.
Responded(r) == pc[r] = "done" /\ result[r] = "Ok"

\* persist_session of the request of connection r found the session in State.
InScope(r) == session_data[r] # NoSession

PersistedOk(r) ==
    \E i \in Positions(log[r], "persist_session") : log[r][i].ok

\* ------------------------------------------------------------------- C1
\* C1 as stated: every request without a session cookie that ends with a
\* response has exactly one Set-Cookie header on it, whatever the outcome of
\* the persist step (stated for the requests whose session is still in State
\* when the handler returns).
C1_OneSetCookieWhateverPersistDoes ==
    \A r \in Connections :
        Responded(r) /\ CookieIdentifier(r) = None /\ InScope(r)
            => Len(response[r].set_cookie) = 1

\* C1 amended: a request without a session cookie whose handler returns a
\* response and leaves the session in State gets exactly one Set-Cookie header,
\* the session cookie, whether or not the handler mutated the session and
\* whatever Set-Cookie the handler set, when serialization and persistSession
\* succeed; when either fails the response is the internal-error response,
\* which has no Set-Cookie header.
C1_OneSetCookieWhenPersisted ==
    \A r \in Connections :
        Responded(r) /\ CookieIdentifier(r) = None /\ InScope(r)
            => IF PersistedOk(r)
               THEN /\ Len(response[r].set_cookie) = 1
                    /\ response[r].set_cookie[1].name = CookieName
               ELSE response[r] = ise_response

C1_Witness ==
    \E r \in Connections :
        /\ Responded(r) /\ CookieIdentifier(r) = None /\ InScope(r)
        /\ Mutated(r)
        /\ PersistedOk(r)
        /\ handler[r].returned.set_cookie # <<>>
        /\ Len(response[r].set_cookie) = 1

\* The chain of the request of connection r resolves to a response in this
\* step, so persist_session runs in it.
PostProcess(r) == pc[r] = "chain" /\ pc'[r] = "done" /\ result'[r] = "Ok"

\* ------------------------------------------------------------------- C2
\* C2: for a request whose cookie names an identifier with a decodable record
\* and whose handler never takes mutable access, post-processing makes no
\* persistSession call (and serializes nothing), adds no Set-Cookie header (the
\* response is the handler's), and leaves the backend as it was.
C2_CleanExistingNotPersisted ==
    [][\A r \in Connections :
          PostProcess(r) /\ ReadDecodable(r) /\ ~Mutated(r)
              => /\ Count(log'[r], "persist_session") = 0
                 /\ Count(log'[r], "serialize") = 0
                 /\ Count(log'[r], "send_cookie") = 0
                 /\ response'[r] = handler'[r].returned
                 /\ store' = store]_vars

C2_Witness ==
    \E r \in Connections :
        /\ Responded(r) /\ ReadDecodable(r) /\ ~Mutated(r) /\ InScope(r)
        /\ handler[r].seen # None
        /\ Count(log[r], "persist_session") = 0
        /\ store[CookieIdentifier(r)] # NoRecord

\* ------------------------------------------------------------------- C3
\* C3 as stated: for a request whose cookie names an identifier with a
\* decodable record and whose handler mutates the session, post-processing
\* makes exactly one persistSession call, under the cookie's identifier, with
\* the encoding of the handler's final value, adds no Set-Cookie header, and
\* the record then decodes to the mutated value (stated for the requests whose
\* session is still in State when the handler returns).
C3_MutationAlwaysPersisted ==
    [][\A r \in Connections :
          PostProcess(r) /\ ReadDecodable(r) /\ Mutated(r) /\ state[r] # NoSession
              => /\ Count(log'[r], "persist_session") = 1
                 /\ \A i \in Positions(log'[r], "persist_session") :
                        /\ log'[r][i].id = CookieIdentifier(r)
                        /\ log'[r][i].bytes = serialize(handler[r].written)
                 /\ response'[r].set_cookie = handler'[r].returned.set_cookie
                 /\ deserialize(store'[CookieIdentifier(r)])
                        = [ok |-> TRUE, value |-> handler[r].written]]_vars

\* C3 amended: for such a request whose handler leaves the session in State,
\* post-processing adds no Set-Cookie header, serializes the handler's final
\* value once and makes at most one persistSession call, under the cookie's
\* identifier, with that encoding: exactly one when serialization succeeds.
\* When the call returns Ok the response is the handler's and the record then
\* decodes to the mutated value; when serialization or the call fails the
\* response is the internal-error response and the record is left as it was.
C3_MutationPersistedUnlessFailure ==
    [][\A r \in Connections :
          PostProcess(r) /\ ReadDecodable(r) /\ Mutated(r) /\ state[r] # NoSession
              => /\ Count(log'[r], "send_cookie") = 0
                 /\ Count(log'[r], "serialize") = 1
                 /\ \A i \in Positions(log'[r], "serialize") :
                        Count(log'[r], "persist_session")
                            = (IF log'[r][i].ok THEN 1 ELSE 0)
                 /\ \A i \in Positions(log'[r], "persist_session") :
                        /\ log'[r][i].id = CookieIdentifier(r)
                        /\ log'[r][i].bytes = serialize(handler[r].written)
                 /\ IF PersistedOk(r)'
                    THEN /\ response'[r] = handler'[r].returned
                         /\ deserialize(store'[CookieIdentifier(r)])
                                = [ok |-> TRUE, value |-> handler[r].written]
                    ELSE /\ response'[r] = ise_response
                         /\ store' = store]_vars

C3_Witness ==
    \E r \in Connections :
        /\ Responded(r) /\ ReadDecodable(r) /\ Mutated(r) /\ InScope(r)
        /\ PersistedOk(r)
        /\ handler[r].seen # None
        /\ handler[r].written # handler[r].seen
        /\ store[CookieIdentifier(r)] = serialize(handler[r].written)
        /\ response[r].set_cookie = <<>>

\* ------------------------------------------------------------------- C4
\* The backend read of the request of connection r resolves in this step.
ReadResolves(r) == pc[r] = "read_session" /\ pc'[r] # "read_session"

\* The identifiers of the random_identifier calls of the request of r.
Minted(r) ==
    {log[r][i].id : i \in Positions(log[r], "random_identifier")}

\* C4: when readSession returns Ok(None) the session put into State is
\* New x Dirty with the default value and an identifier just obtained from the
\* backend generator, which is not the cookie's; the send_cookie and the
\* persist_session call of post-processing, and the Set-Cookie of the
\* response, use the minted identifier, and post-processing leaves the record
\* of the cookie's identifier as it was.
C4_NoRecordMintsIdentifier ==
    [][\A r \in Connections :
          /\ ReadResolves(r) /\ ReadNoRecord(r)'
                => /\ pc'[r] = "chain"
                   /\ state'[r] = [value |-> DefaultValue,
                                   cookie_state |-> "New",
                                   state |-> "Dirty",
                                   identifier |-> next_identifier]
                   /\ Minted(r)' = {next_identifier}
                   /\ next_identifier # CookieIdentifier(r)
          /\ PostProcess(r) /\ ReadNoRecord(r)
                => /\ state[r] # NoSession => Count(log'[r], "send_cookie") = 1
                   /\ \A i \in Positions(log'[r], "send_cookie")
                               \cup Positions(log'[r], "persist_session") :
                          /\ log'[r][i].id \in Minted(r)
                          /\ log'[r][i].id # CookieIdentifier(r)
                   /\ \A i \in DOMAIN response'[r].set_cookie :
                          response'[r].set_cookie[i].name = CookieName
                              => response'[r].set_cookie[i].value \in Minted(r)
                   /\ store'[CookieIdentifier(r)] = store[CookieIdentifier(r)]]_vars

C4_Witness ==
    \E r \in Connections :
        /\ Responded(r) /\ ReadNoRecord(r) /\ InScope(r) /\ PersistedOk(r)
        /\ CookieIdentifier(r) # ForgedIdentifier
        /\ store[CookieIdentifier(r)] = NoRecord
        /\ Len(response[r].set_cookie) = 1
        /\ response[r].set_cookie[1].value # CookieIdentifier(r)
        /\ store[response[r].set_cookie[1].value] # NoRecord

\* ------------------------------------------------------------------- C5
\* C5: when readSession returns Ok(Some(bytes)) and the bytes do not decode,
\* the request ends with the deserialize error and no response: the chain is
\* never invoked, State holds no session, no identifier is minted for a
\* fallback session, and there is no send_cookie and no persist_session call.
C5_UndecodableFailsRequest ==
    \A r \in Connections :
        ReadUndecodable(r)
            => /\ pc[r] = "done"
               /\ result[r] = "session couldn't be deserialized"
               /\ response[r] = NoResponse
               /\ state[r] = NoSession
               /\ handler[r] = NoHandler
               /\ Count(log[r], "chain") = 0
               /\ Count(log[r], "random_identifier") = 0
               /\ Count(log[r], "send_cookie") = 0
               /\ Count(log[r], "serialize") = 0
               /\ Count(log[r], "persist_session") = 0

C5_Witness ==
    \E r \in Connections :
        /\ ReadUndecodable(r)
        /\ pc[r] = "done"
        /\ result[r] = "session couldn't be deserialized"
        /\ store[CookieIdentifier(r)] = ForeignBytes

\* ------------------------------------------------------------------- C6
\* C6: when readSession returns a backend error, the request ends with the
\* backend error and no response: the chain is never invoked, State holds no
\* session, and no persist_session call is made.
C6_ReadErrorFailsRequest ==
    \A r \in Connections :
        ReadFailed(r)
            => /\ pc[r] = "done"
               /\ result[r] = "backend failed to return session"
               /\ response[r] = NoResponse
               /\ state[r] = NoSession
               /\ handler[r] = NoHandler
               /\ Count(log[r], "chain") = 0
               /\ Count(log[r], "send_cookie") = 0
               /\ Count(log[r], "persist_session") = 0

C6_Witness ==
    \E r \in Connections :
        /\ ReadFailed(r)
        /\ pc[r] = "done"
        /\ result[r] = "backend failed to return session"
        /\ store[CookieIdentifier(r)] # NoRecord
        /\ deserialize(store[CookieIdentifier(r)]).ok

\* ------------------------------------------------------------------- C7
\* Serialization or persist_session failed in the request of connection r.
PersistFailed(r) ==
    \E i \in Positions(log[r], "serialize") \cup Positions(log[r], "persist_session") :
        ~log[r][i].ok

\* C7: when the serialization of a Dirty session fails or persist_session
\* returns an error, the request still resolves Ok, its response is exactly the
\* fresh internal-server-error response (nothing of the handler's response, and
\* no Set-Cookie, is kept), and the backend is left as it was.
C7_PersistFailureReplacesResponse ==
    [][\A r \in Connections :
          pc[r] = "chain" /\ pc'[r] = "done" /\ PersistFailed(r)'
              => /\ state[r].state = "Dirty"
                 /\ result'[r] = "Ok"
                 /\ response'[r] = ise_response
                 /\ response'[r].status = InternalServerError
                 /\ response'[r].set_cookie = <<>>
                 /\ store' = store]_vars

C7_Witness ==
    \E r \in Connections :
        /\ Responded(r) /\ PersistFailed(r) /\ Mutated(r)
        /\ Count(log[r], "persist_session") = 1
        /\ Count(log[r], "send_cookie") = 1
        /\ handler[r].returned.set_cookie # <<>>
        /\ response[r] = ise_response

\* ------------------------------------------------------------------- C8
\* The value of the record the backend read of the request of r returned.
Loaded(r) ==
    LET i == CHOOSE i \in Positions(log[r], "read_result") : TRUE
    IN  deserialize(log[r][i].bytes).value

\* The handler of the request of connection r reads the session in this step.
HandlerReads(r) ==
    /\ pc[r] = "chain" /\ pc'[r] = "chain"
    /\ state'[r] # NoSession
    /\ handler'[r].last = "deref"
    /\ handler'[r].written = handler[r].written

\* The response of the request of r carries the session cookie of identifier id.
SetsSessionCookie(resp, id) ==
    \E i \in DOMAIN resp.set_cookie :
        resp.set_cookie[i].name = CookieName /\ resp.set_cookie[i].value = id

\* C8 as stated, for the requests of one connection served one after another:
\* a request without a cookie whose handler leaves the session alone issues an
\* identifier and stores the default value under it; a request presenting an
\* identifier whose record is read sees in its handler the value last
\* persisted under it and gets no session Set-Cookie; the value a handler
\* writes is what the record holds for the next request with that cookie.
C8_EveryWriteSeenByNextRequest ==
    [][\A r \in Connections :
          /\ PostProcess(r) /\ CookieIdentifier(r) = None
                /\ state[r] # NoSession /\ ~Mutated(r)
                => /\ SetsSessionCookie(response'[r], state[r].identifier)
                   /\ store'[state[r].identifier] = serialize(DefaultValue)
          /\ ReadResolves(r) /\ ReadDecodable(r)'
                => /\ persisted[CookieIdentifier(r)] # None
                   /\ Loaded(r)' = persisted[CookieIdentifier(r)]
                   /\ state'[r].value = persisted[CookieIdentifier(r)]
          /\ HandlerReads(r) /\ ReadDecodable(r) /\ ~Mutated(r)
                => handler'[r].seen = Loaded(r)
          /\ PostProcess(r) /\ ReadDecodable(r)
                => ~SetsSessionCookie(response'[r], CookieIdentifier(r))
          /\ PostProcess(r) /\ Mutated(r) /\ state[r] # NoSession
                => deserialize(store'[state[r].identifier])
                       = [ok |-> TRUE, value |-> handler[r].written]]_vars

\* C8 amended, for the requests of one connection served one after another: a
\* request without a cookie whose handler leaves the session alone, and whose
\* persist succeeds, issues an identifier and stores the default value under
\* it; a request presenting an identifier whose record is read sees in its
\* handler the value last persisted under it and gets no session Set-Cookie;
\* the value a handler writes in a request whose persist succeeds is the value
\* last persisted, which the record holds for the next request with that
\* cookie.  A request whose serialization or persist fails stores nothing and
\* issues no identifier.
C8_PersistedWriteSeenByNextRequest ==
    [][\A r \in Connections :
          /\ PostProcess(r) /\ CookieIdentifier(r) = None
                /\ state[r] # NoSession /\ ~Mutated(r)
                => IF PersistedOk(r)'
                   THEN /\ SetsSessionCookie(response'[r], state[r].identifier)
                        /\ store'[state[r].identifier] = serialize(DefaultValue)
                        /\ persisted'[state[r].identifier] = DefaultValue
                   ELSE /\ response'[r].set_cookie = <<>>
                        /\ store' = store
                        /\ persisted' = persisted
          /\ ReadResolves(r) /\ ReadDecodable(r)'
                => /\ persisted[CookieIdentifier(r)] # None
                   /\ Loaded(r)' = persisted[CookieIdentifier(r)]
                   /\ state'[r].value = persisted[CookieIdentifier(r)]
          /\ HandlerReads(r) /\ ReadDecodable(r) /\ ~Mutated(r)
                => handler'[r].seen = Loaded(r)
          /\ PostProcess(r) /\ ReadDecodable(r)
                => ~SetsSessionCookie(response'[r], CookieIdentifier(r))
          /\ PostProcess(r) /\ Mutated(r) /\ state[r] # NoSession
                => IF PersistedOk(r)'
                   THEN /\ deserialize(store'[state[r].identifier])
                               = [ok |-> TRUE, value |-> handler[r].written]
                        /\ persisted'[state[r].identifier] = handler[r].written
                   ELSE /\ store' = store
                        /\ persisted' = persisted]_vars

C8_Witness ==
    \E r \in Connections :
        /\ Responded(r) /\ ReadDecodable(r) /\ ~Mutated(r) /\ InScope(r)
        /\ handler[r].seen = MaxValue
        /\ persisted[CookieIdentifier(r)] = MaxValue
        /\ response[r].set_cookie = <<>>

\* ------------------------------------------------------------------- C9
\* C9: in every state, a SessionData whose cookie_state is New has state
\* Dirty, in State while the handler runs and when persist_session takes it.
C9_NewIsDirty ==
    \A r \in Connections :
        /\ state[r].cookie_state = "New" => state[r].state = "Dirty"
        /\ session_data[r].cookie_state = "New" => session_data[r].state = "Dirty"

C9_Witness ==
    \E r \in Connections :
        /\ pc[r] = "chain"
        /\ state[r].cookie_state = "New"
        /\ state[r].state = "Dirty"
        /\ handler[r].last = "deref"
        /\ handler[r].seen = DefaultValue

\* ------------------------------------------------------------------ C10
\* The handler of the request of connection r takes mutable access in this step.
HandlerWrites(r) ==
    /\ pc[r] = "chain" /\ pc'[r] = "chain"
    /\ state'[r] # NoSession
    /\ handler'[r].last = "deref_mut"
    /\ handler'[r] # handler[r] \/ state'[r] # state[r]

\* C10: a mutable access leaves the session Dirty, a read access leaves the
\* SessionData as it was, and no step moves the session that State holds from
\* Dirty to Clean.
C10_DirtyIsOneWay ==
    [][\A r \in Connections :
          /\ HandlerWrites(r) => state'[r].state = "Dirty"
          /\ HandlerReads(r) => state'[r] = state[r]
          /\ state[r].state = "Dirty" /\ state'[r] # NoSession
                => state'[r].state = "Dirty"]_vars

C10_Witness ==
    \E r \in Connections :
        /\ pc[r] = "chain"
        /\ state[r].cookie_state = "Existing"
        /\ state[r].state = "Dirty"
        /\ handler[r].last = "deref"
        /\ handler[r].written # None
        /\ handler[r].seen = handler[r].written

\* ------------------------------------------------------------------ C11
\* C11: when the response of a request carries the session Set-Cookie of an
\* identifier, the persist_session call of that request under that identifier
\* returned Ok and the backend holds a decodable record for it as the response
\* is returned; a new session that the handler never touched is serialized and,
\* unless that or the persist fails, stored with the default value.
C11_CookieImpliesRecord ==
    [][\A r \in Connections :
          /\ PostProcess(r) /\ state[r] # NoSession
                /\ SetsSessionCookie(response'[r], state[r].identifier)
                => /\ \E i \in Positions(log'[r], "persist_session") :
                          log'[r][i].ok /\ log'[r][i].id = state[r].identifier
                   /\ store'[state[r].identifier] = serialize(state[r].value)
                   /\ deserialize(store'[state[r].identifier]).ok
          /\ PostProcess(r) /\ state[r].cookie_state = "New"
                /\ handler[r].last = "none"
                => /\ Count(log'[r], "serialize") = 1
                   /\ response'[r] # ise_response
                          => store'[state[r].identifier] = serialize(DefaultValue)]_vars

C11_Witness ==
    \E r \in Connections :
        /\ Responded(r) /\ InScope(r)
        /\ handler[r].last = "none"
        /\ session_data[r].cookie_state = "New"
        /\ SetsSessionCookie(response[r], session_data[r].identifier)
        /\ store[session_data[r].identifier] = serialize(DefaultValue)

\* ------------------------------------------------------------------ C12
\* The session of the request of connection r was loaded or created, so that
\* call went on to the handler chain.
LoadSucceeded(r) ==
    /\ pc[r] # "idle"
    /\ \/ CookieIdentifier(r) = None
       \/ ReadDecodable(r)
       \/ ReadNoRecord(r)

\* C12 as stated: every request that ran to its outcome invoked the handler
\* chain exactly once.
C12_ChainInvokedExactlyOnce ==
    \A r \in Connections :
        pc[r] = "done" /\ result[r] # "cancelled" => Count(log[r], "chain") = 1

\* C12: call invokes the handler chain at most once per request: exactly once
\* when the session was loaded or created, and never when the backend read
\* failed, the record could not be decoded, or the read has not resolved.
C12_ChainInvokedOnceAfterLoad ==
    \A r \in Connections :
        /\ Count(log[r], "chain") <= 1
        /\ LoadSucceeded(r) <=> Count(log[r], "chain") = 1
        /\ ReadFailed(r) \/ ReadUndecodable(r) => Count(log[r], "chain") = 0
        /\ result[r] \in {"Ok", "handler error"} => Count(log[r], "chain") = 1

C12_Witness ==
    \E r \in Connections :
        /\ Responded(r)
        /\ ReadDecodable(r)
        /\ Count(log[r], "chain") = 1
        /\ handler[r].returned \in HandlerResponses

\* ------------------------------------------------------------------ C13
\* The attributes of a cookie string.
Attributes(cookie) == {cookie.attributes[i] : i \in DOMAIN cookie.attributes}

\* C13: post-processing calls send_cookie iff the session it takes from State
\* has cookie_state New; the header it sets is one cookie whose name is the
\* configured name, whose value is the session's identifier, which is HttpOnly,
\* and which is secure iff the configuration is; that cookie is the Set-Cookie
\* of the response whenever persisting does not replace the response.
C13_CookieIffNew ==
    [][\A r \in Connections :
          PostProcess(r) /\ state[r] # NoSession
              => /\ Count(log'[r], "send_cookie") = 1 <=> state[r].cookie_state = "New"
                 /\ Count(log'[r], "send_cookie") <= 1
                 /\ state[r].cookie_state = "New" =>
                      LET sent == send_cookie(handler'[r].returned, state[r], secure)
                          cookie == sent.set_cookie[1]
                      IN  /\ Len(sent.set_cookie) = 1
                          /\ cookie.name = CookieName
                          /\ cookie.value = state[r].identifier
                          /\ "HttpOnly" \in Attributes(cookie)
                          /\ "secure" \in Attributes(cookie) <=> secure
                          /\ response'[r] # ise_response
                                 => response'[r].set_cookie = <<cookie>>
                 /\ state[r].cookie_state # "New"
                        => ~SetsSessionCookie(response'[r], state[r].identifier)]_vars

C13_Witness ==
    \E r \in Connections :
        /\ Responded(r) /\ InScope(r)
        /\ session_data[r].cookie_state = "New"
        /\ ~secure
        /\ Count(log[r], "send_cookie") = 1
        /\ response[r].set_cookie =
               <<cookie_string(CookieName, session_data[r].identifier, <<"HttpOnly">>)>>

\* ------------------------------------------------------------------ C14
\* C14: while State holds the session of a request, no step changes its
\* identifier or its cookie_state, whatever the handler does with the value;
\* post-processing takes the session with the identifier and cookie_state it was
\* constructed with and uses that identifier for the cookie and the record; the
\* session built from a stored record is Existing under the identifier the
\* request's cookie carried.
C14_IdentifierAndCookieStateFrozen ==
    [][\A r \in Connections :
          /\ state[r] # NoSession /\ state'[r] # NoSession
                => /\ state'[r].identifier = state[r].identifier
                   /\ state'[r].cookie_state = state[r].cookie_state
          /\ PostProcess(r) /\ state[r] # NoSession
                => /\ session_data'[r].identifier = state[r].identifier
                   /\ session_data'[r].cookie_state = state[r].cookie_state
                   /\ \A i \in DOMAIN log'[r] :
                          log'[r][i].op \in {"send_cookie", "serialize", "persist_session"}
                              => log'[r][i].id = state[r].identifier
          /\ ReadResolves(r) /\ ReadDecodable(r)'
                => /\ state'[r].identifier = CookieIdentifier(r)
                   /\ state'[r].cookie_state = "Existing"]_vars

C14_Witness ==
    \E r \in Connections :
        /\ Responded(r) /\ InScope(r)
        /\ ReadDecodable(r)
        /\ Mutated(r)
        /\ session_data[r].identifier = CookieIdentifier(r)
        /\ session_data[r].cookie_state = "Existing"
        /\ session_data[r].state = "Dirty"

\* ------------------------------------------------------------------ C15
\* Every event op1 of a log comes before every event op2 of it.
Precedes(events, op1, op2) ==
    \A i \in Positions(events, op1) : \A j \in Positions(events, op2) : i < j

\* C15: within a request the backend read has resolved before the handler
\* chain is invoked and before the handler touches the session; send_cookie,
\* serialization and persist_session happen only after the chain was invoked
\* and has returned its response; and send_cookie comes before the
\* persist_session call.
C15_StrictOrdering ==
    \A r \in Connections :
        /\ Precedes(log[r], "read_session", "read_result")
        /\ Precedes(log[r], "read_result", "chain")
        /\ Precedes(log[r], "chain", "send_cookie")
        /\ Precedes(log[r], "chain", "serialize")
        /\ Precedes(log[r], "chain", "persist_session")
        /\ Precedes(log[r], "send_cookie", "serialize")
        /\ Precedes(log[r], "send_cookie", "persist_session")
        /\ pc[r] = "read_session"
               => /\ Count(log[r], "chain") = 0
                  /\ handler[r] = NoHandler
                  /\ state[r] = NoSession
        /\ Count(log[r], "chain") = 1 /\ CookieIdentifier(r) # None
               => Count(log[r], "read_result") = 1
        /\ handler[r] # NoHandler => Count(log[r], "chain") = 1
        /\ Count(log[r], "send_cookie") + Count(log[r], "serialize")
                + Count(log[r], "persist_session") > 0
               => /\ Count(log[r], "chain") = 1
                  /\ pc[r] = "done"
                  /\ handler[r].returned \in HandlerResponses

C15_Witness ==
    \E r \in Connections :
        /\ Responded(r)
        /\ ReadNoRecord(r)
        /\ Count(log[r], "chain") = 1
        /\ Count(log[r], "send_cookie") = 1
        /\ Count(log[r], "persist_session") = 1

\* ------------------------------------------------------------------ C16
\* C16: a request calls read_session at most once and persist_session at most
\* once, also when the call fails; a failed read ends the request with the
\* backend error and no response, the handler chain never invoked; a failed
\* persist_session ends it with the internal-error response in the place of the
\* handler's.
C16_NoRetryNoSwallowedFailure ==
    \A r \in Connections :
        /\ Count(log[r], "read_session") <= 1
        /\ Count(log[r], "read_result") <= 1
        /\ Count(log[r], "persist_session") <= 1
        /\ ReadFailed(r)
               => /\ pc[r] = "done"
                  /\ result[r] = "backend failed to return session"
                  /\ response[r] = NoResponse
                  /\ Count(log[r], "chain") = 0
                  /\ Count(log[r], "persist_session") = 0
        /\ PersistFailed(r)
               => /\ Responded(r)
                  /\ response[r] = ise_response
                  /\ response[r] # handler[r].returned

C16_Witness ==
    \E r \in Connections :
        /\ Responded(r)
        /\ ReadDecodable(r)
        /\ PersistFailed(r)
        /\ Count(log[r], "read_session") = 1
        /\ Count(log[r], "persist_session") = 1
        /\ response[r] = ise_response

\* ------------------------------------------------------------------ C17
\* The Cookie header that carries the session cookie of identifier id.
SessionCookieHeader(id) == [present |-> TRUE, pairs |-> {<<CookieName, id>>}]

\* C17: with requests of several connections in flight, no step of a request
\* waits for another request: a connection can start a request for any issued
\* identifier whatever the others do, a pending read can resolve, and a running
\* handler can read, write and return. A handler that has not written reads
\* the value its own request's read returned, whatever was stored since. A
\* persist_session that returns Ok leaves under the session's identifier
\* exactly the encoding of that request's value, whatever was stored there, and
\* leaves every other record alone.
C17_NoLockLastWriteWins ==
    [][\A r \in Connections :
          /\ pc[r] = "idle"
                => \A id \in 1..(next_identifier - 1) :
                       ENABLED call(r, SessionCookieHeader(id))
          /\ pc[r] = "read_session" => ENABLED read_session_ready(r, FALSE)
          /\ pc[r] = "chain"
                => /\ ENABLED chain_ok(r, [status |-> Accepted, set_cookie |-> <<>>],
                                       TRUE, TRUE)
                   /\ state[r] # NoSession
                          => /\ ENABLED handler_deref(r)
                             /\ \A v \in Values : ENABLED handler_deref_mut(r, v)
          /\ HandlerReads(r) /\ ~Mutated(r) /\ ReadDecodable(r)
                => handler'[r].seen = Loaded(r)
          /\ PostProcess(r) /\ state[r] # NoSession /\ PersistedOk(r)'
                => /\ store'[state[r].identifier] = serialize(state[r].value)
                   /\ \A id \in Identifiers :
                          id # state[r].identifier => store'[id] = store[id]]_vars

\* Two requests presented the same identifier and read the same value; both
\* handlers wrote, both persist_session calls returned Ok, and the record holds
\* the value of one of them: the other's write is lost.
C17_Witness ==
    \E r1 \in Connections : \E r2 \in Connections \ {r1} :
        /\ Responded(r1) /\ Responded(r2)
        /\ CookieIdentifier(r1) # None
        /\ CookieIdentifier(r1) = CookieIdentifier(r2)
        /\ ReadDecodable(r1) /\ ReadDecodable(r2)
        /\ Loaded(r1) = Loaded(r2)
        /\ Mutated(r1) /\ Mutated(r2)
        /\ handler[r1].written # Loaded(r1)
        /\ handler[r1].written # handler[r2].written
        /\ PersistedOk(r1) /\ PersistedOk(r2)
        /\ store[CookieIdentifier(r1)] = serialize(handler[r2].written)

\* ------------------------------------------------------------------ C18
\* The handler chain of the request of connection r fails in this step.
ChainFails(r) ==
    pc[r] = "chain" /\ pc'[r] = "done" /\ result'[r] = "handler error"

\* C18: when the handler chain fails, the request ends with the chain's error
\* and no response, and post-processing does not run: the step adds no
\* send_cookie, serialization or persist_session call and leaves every record
\* as it was, also when the session in State is New or was written by the
\* handler.
C18_ChainErrorSkipsPostProcessing ==
    [][\A r \in Connections :
          /\ ChainFails(r)
                => /\ log'[r] = log[r]
                   /\ store' = store
                   /\ response'[r] = NoResponse
                   /\ session_data'[r] = NoSession
          /\ result[r] = "handler error"
                => /\ pc[r] = "done"
                   /\ response[r] = NoResponse
                   /\ Count(log[r], "send_cookie") = 0
                   /\ Count(log[r], "serialize") = 0
                   /\ Count(log[r], "persist_session") = 0]_vars

C18_Witness ==
    \E r \in Connections :
        /\ pc[r] = "done" /\ result[r] = "handler error"
        /\ state[r].cookie_state = "New"
        /\ state[r].state = "Dirty"
        /\ Mutated(r)
        /\ store[state[r].identifier] = NoRecord
        /\ response[r] = NoResponse

\* ------------------------------------------------------------------ C19
\* The request of connection r is cancelled in this step while its backend
\* read is pending.
CancelledInRead(r) ==
    pc[r] = "read_session" /\ pc'[r] = "done" /\ result'[r] = "cancelled"

\* C19: while the backend read of a request is pending no SessionData is in
\* State and the handler has not run; a request cancelled at that point ends
\* there: nothing is placed in State, the handler chain is never invoked, and
\* no persist_session call is made, so no record changes.
C19_CancelDuringReadDoesNothing ==
    [][\A r \in Connections :
          /\ pc[r] = "read_session"
                => state[r] = NoSession /\ handler[r] = NoHandler
          /\ CancelledInRead(r)
                => /\ state'[r] = NoSession
                   /\ session_data'[r] = NoSession
                   /\ handler'[r] = NoHandler
                   /\ log'[r] = log[r]
                   /\ store' = store
                   /\ response'[r] = NoResponse
          /\ result[r] = "cancelled" /\ Count(log[r], "read_result") = 0
                /\ CookieIdentifier(r) # None
                => /\ pc[r] = "done"
                   /\ state[r] = NoSession
                   /\ session_data[r] = NoSession
                   /\ handler[r] = NoHandler
                   /\ Count(log[r], "chain") = 0
                   /\ Count(log[r], "serialize") = 0
                   /\ Count(log[r], "persist_session") = 0]_vars

C19_Witness ==
    \E r \in Connections :
        /\ pc[r] = "done" /\ result[r] = "cancelled"
        /\ CookieIdentifier(r) # None
        /\ deserialize(store[CookieIdentifier(r)]).ok
        /\ Count(log[r], "read_session") = 1
        /\ Count(log[r], "read_result") = 0
        /\ state[r] = NoSession

\* ------------------------------------------------------------------ C20
\* The request has no Cookie header, or one without the configured name.
LacksSessionCookie(cookie) ==
    ~cookie.present \/ \A p \in cookie.pairs : p[1] # CookieName

\* call takes up the request of connection r in this step.
Called(r) == pc[r] = "idle" /\ pc'[r] # "idle"

\* C20: for a request with no Cookie header, or with a Cookie header in which
\* the configured name is absent, call makes no read_session call: in the one
\* step that takes the request up it obtains an identifier from the backend's
\* generator, puts the New x Dirty session with the default value into State
\* and invokes the handler chain, which has not run before; and the request
\* makes no read_session call later either.
C20_NoCookieNoRead ==
    [][\A r \in Connections :
          /\ Called(r) /\ LacksSessionCookie(request'[r])
                => /\ pc'[r] = "chain"
                   /\ log'[r] = <<Event("random_identifier", next_identifier, <<>>, TRUE),
                                  Event("chain", None, <<>>, TRUE)>>
                   /\ state'[r] = [value |-> DefaultValue, cookie_state |-> "New",
                                   state |-> "Dirty", identifier |-> next_identifier]
                   /\ handler'[r] = NoHandler
                   /\ store' = store
          /\ pc[r] # "idle" /\ LacksSessionCookie(request[r])
                => /\ Count(log[r], "read_session") = 0
                   /\ Count(log[r], "read_result") = 0]_vars

C20_Witness ==
    \E r \in Connections :
        /\ pc[r] = "chain"
        /\ request[r].present
        /\ request[r].pairs = {<<OtherCookieName, 1>>}
        /\ store[1] # NoRecord
        /\ state[r].cookie_state = "New" /\ state[r].state = "Dirty"
        /\ state[r].value = DefaultValue
        /\ handler[r] = NoHandler
        /\ Count(log[r], "read_session") = 0

\* ------------------------------------------------------------------ C21
\* C21: when State holds no SessionData as the chain returns, post-processing
\* returns the handler's response as it is, calls neither send_cookie nor
\* serialization nor persist_session, and leaves every record alone, also when
\* the session the handler removed was New; and after post-processing of any
\* request whose chain returned a response, State holds no SessionData.
C21_NoSessionPassesThrough ==
    [][\A r \in Connections :
          /\ PostProcess(r) /\ state[r] = NoSession
                => /\ response'[r] = handler'[r].returned
                   /\ log'[r] = log[r]
                   /\ store' = store
                   /\ session_data'[r] = NoSession
          /\ PostProcess(r) => state'[r] = NoSession
          /\ Responded(r) => state[r] = NoSession]_vars

C21_Witness ==
    \E r \in Connections :
        /\ Responded(r) /\ ~InScope(r)
        /\ LacksSessionCookie(request[r])
        /\ Minted(r) # {}
        /\ \A id \in Minted(r) : store[id] = NoRecord
        /\ handler[r].returned \in HandlerResponses
        /\ response[r] = handler[r].returned
        /\ Count(log[r], "send_cookie") = 0
        /\ Count(log[r], "persist_session") = 0

\* ------------------------------------------------------------------ C22
\* C22: for a New session send_cookie leaves on the response exactly one
\* Set-Cookie value, the session cookie, whatever Set-Cookie values the
\* handler's response carried, and that is the Set-Cookie of the response
\* returned unless persisting replaces the response; for an Existing session
\* send_cookie is not called and the response returned, unless persisting
\* replaces it, is the handler's with its Set-Cookie values as they were.
C22_SetCookieReplacedOnlyForNew ==
    [][\A r \in Connections :
          /\ \A resp \in HandlerResponses :
                 state[r] # NoSession
                     => send_cookie(resp, state[r], secure) =
                            [resp EXCEPT !.set_cookie =
                                 <<session_cookie(state[r], secure)>>]
          /\ PostProcess(r) /\ state[r].cookie_state = "New"
                /\ response'[r] # ise_response
                => /\ response'[r].set_cookie = <<session_cookie(state[r], secure)>>
                   /\ response'[r].status = handler'[r].returned.status
                   /\ \A i \in DOMAIN response'[r].set_cookie :
                          response'[r].set_cookie[i] # HandlerCookie
          /\ PostProcess(r) /\ state[r].cookie_state = "Existing"
                => /\ Count(log'[r], "send_cookie") = 0
                   /\ response'[r] # ise_response
                          => response'[r] = handler'[r].returned]_vars

C22_Witness ==
    \E r \in Connections :
        /\ Responded(r) /\ InScope(r)
        /\ session_data[r].cookie_state = "New"
        /\ handler[r].returned.set_cookie = <<HandlerCookie>>
        /\ response[r].set_cookie = <<session_cookie(session_data[r], secure)>>
        /\ response[r].status = Accepted

====
